---- MODULE Spec2Model ----
(***************************************************************************)
(* madsim-tonic transport server: Router::add_service and the dispatch     *)
(* loop of Router::serve_with_shutdown (src/madsim-tonic/src/transport/    *)
(* server.rs).  One action per await point of the serve future and of the  *)
(* spawned response task; the peers, the handlers and the shutdown signal  *)
(* are the environment.                                                    *)
(***************************************************************************)
EXTENDS Integers, Sequences, FiniteSets, TLC

\* ------------------------------------------------------------------ bounds
MaxConns == 2      \* connections the peers open during one serving session
MaxWork  == 6      \* connections opened, messages sent and items yielded, in total

\* ------------------------------------------------------------------ values
Conns    == 1 .. MaxConns
Handlers == {1, 2, 3}
NoConn    == 0
NoHandler == 0

\* S::NAME of each handler type: handlers 1 and 3 share a name.
NAME(h) == IF h = 2 THEN <<"b">> ELSE <<"a">>
Names == {NAME(h) : h \in Handlers}

\* PathAndQuery values, as character sequences; the last has a query part.
Paths == { <<"/", "a", "/", "x">>, <<"/", "a", "/", "y">>,
           <<"/", "b", "?", "x", "/", "y">> }

\* BoxMessage bodies: the unit value () is the stream marker.
Unit     == "()"
Payloads == {"A", "B"}

\* The first message of a well-formed call is a (PathAndQuery, BoxMessage) pair;
\* any other message is a bare payload.
ReqMsg(p, b) == [type |-> "req", path |-> p, body |-> b]
RawMsg(b)    == [type |-> "raw", path |-> <<>>, body |-> b]
NoMsg        == [type |-> "none", path |-> <<>>, body |-> ""]
FirstMsgs    == { ReqMsg(<<"/", "a", "/", "x">>, "A"),
                  ReqMsg(<<"/", "a", "/", "y">>, Unit),
                  ReqMsg(<<"/", "b", "?", "x", "/", "y">>, "A") }
LaterMsgs    == {RawMsg(b) : b \in Payloads}

\* BoxMessageStream request sequences: futures::stream::once over the first
\* message (spent once it has yielded it), or the try_stream that keeps
\* receiving from rx (ended once a receive has failed).
NoRequests      == [kind |-> "none", msg |-> ""]
OnceStream(b)   == [kind |-> "once", msg |-> b]
RecvStream      == [kind |-> "stream", msg |-> ""]
EndedStream     == [kind |-> "ended", msg |-> ""]
SpentStream     == [kind |-> "spent", msg |-> ""]
DroppedStream   == [kind |-> "dropped", msg |-> ""]

\* Result<BoxMessage, Status> items of a response sequence.
Items == {<<"Ok", "A">>, <<"Err", "status">>}

\* SocketAddr of the peer behind connection c.
PeerAddr(c) == 100 + c

\* ------------------------------------------------------- pure functions
\* str::split('/'): the segments between separators, empty ones included.
RECURSIVE SplitFrom(_, _, _)
SplitFrom(s, sep, acc) ==
    IF s = <<>> THEN <<acc>>
    ELSE IF Head(s) = sep THEN <<acc>> \o SplitFrom(Tail(s), sep, <<>>)
    ELSE SplitFrom(Tail(s), sep, Append(acc, Head(s)))

Split(s, sep) == SplitFrom(s, sep, <<>>)

\* The characters of s before the first ch.
RECURSIVE Before(_, _)
Before(s, ch) ==
    IF s = <<>> \/ Head(s) = ch THEN <<>>
    ELSE <<Head(s)>> \o Before(Tail(s), ch)

\* PathAndQuery::path(): the value with its query part cut, "/" when that
\* leaves nothing.
PathOf(pq) == IF Before(pq, "?") = <<>> THEN <<"/">> ELSE Before(pq, "?")

\* path.path().split('/').nth(1): <<TRUE, segment>> or <<FALSE, <<>>>> for None.
SvcName(path) ==
    LET segs == Split(PathOf(path), "/")
    IN  IF Len(segs) >= 2 THEN <<TRUE, segs[2]>> ELSE <<FALSE, <<>>>>

\* msg.downcast::<(PathAndQuery, BoxMessage)>() succeeds.
IsRequest(m) == m.type = "req"

\* msg.downcast_ref::<()>().is_none(): the body is a single request.
IsSingle(body) == body # Unit

VARIABLES
    services,   \* Router.services: name -> handler (NoHandler: no entry)
    loop,       \* position of the serve future
    cur,        \* connection held by the loop between accept and hand-off
    curReq,     \* (path, msg) of that connection once classified
    signalled,  \* the shutdown signal has resolved
    ready,      \* handler -> its poll_ready returns Ready
    nconn,      \* connections opened so far
    acceptQ,    \* connections waiting in the endpoint, oldest first
    accepted,   \* connections returned by accept1, in order
    rxq,        \* conn -> messages sent by the peer, not yet received
    begun,      \* conn -> the peer has sent its first message
    work,       \* connections opened, messages sent and items yielded so far
    chan,       \* conn -> state of the server's Sender: none / open / closed
    requests,   \* conn -> request sequence built for the handler
    delivered,  \* conn -> messages the request sequence has yielded
    task,       \* conn -> position of the spawned response task
    yielded,    \* conn -> items the response sequence has yielded
    item,       \* conn -> item the task is sending
    sent,       \* conn -> items delivered to the peer
    invoked,    \* calls made on handlers, in order
    sentAtStop, \* conn -> Len(sent) when serve returned Ok(())
    displaced   \* handler the latest add_service on an occupied name found there

vars == << services, loop, cur, curReq, signalled, ready, nconn, acceptQ,
           accepted, rxq, begun, work, chan, requests, delivered, task,
           yielded, item, sent, invoked, sentAtStop, displaced >>

\* Variable groups, for the UNCHANGED clauses.
cfgVars  == << services, ready, displaced >>
loopVars == << loop, cur, curReq >>
peerVars == << nconn, begun >>
reqVars  == << requests, delivered >>
taskVars == << task, yielded, item, sent >>
histVars == << accepted, invoked, sentAtStop >>

Serving == {"Accepting", "Classifying", "WaitReady"}

Init ==
    /\ services = [n \in Names |-> NoHandler]
    /\ loop = "Config"
    /\ cur = NoConn
    /\ curReq = NoMsg
    /\ signalled = FALSE
    /\ ready = [h \in Handlers |-> TRUE]
    /\ nconn = 0
    /\ acceptQ = <<>>
    /\ accepted = <<>>
    /\ rxq = [c \in Conns |-> <<>>]
    /\ begun = [c \in Conns |-> FALSE]
    /\ work = 0
    /\ chan = [c \in Conns |-> "none"]
    /\ requests = [c \in Conns |-> NoRequests]
    /\ delivered = [c \in Conns |-> <<>>]
    /\ task = [c \in Conns |-> "none"]
    /\ yielded = [c \in Conns |-> <<>>]
    /\ item = [c \in Conns |-> <<>>]
    /\ sent = [c \in Conns |-> <<>>]
    /\ invoked = <<>>
    /\ sentAtStop = [c \in Conns |-> 0]
    /\ displaced = NoHandler

\* ------------------------------------------------------------ configuration
\* HashMap::get_mut(name): the handler under name, NoHandler for None.
Lookup(name) == IF name \in DOMAIN services THEN services[name] ELSE NoHandler

\* Mutant of AddService: a name already present keeps its first handler.
AddServiceKeepFirst(h) ==
    /\ loop = "Config"
    /\ services' = IF services[NAME(h)] = NoHandler
                   THEN [services EXCEPT ![NAME(h)] = h]
                   ELSE services
    /\ displaced' = IF services[NAME(h)] \notin {NoHandler, h}
                    THEN services[NAME(h)] ELSE displaced
    /\ UNCHANGED << ready, loopVars, signalled, peerVars, acceptQ, rxq, work,
                    chan, reqVars, taskVars, histVars >>

\* Router::add_service (and Server::add_service, which adds to an empty
\* router): services.insert(S::NAME, Box::new(svc)); insert drops the entry
\* it finds under the name.
AddService(h) ==
    /\ loop = "Config"
    /\ services' = [services EXCEPT ![NAME(h)] = h]
    /\ displaced' = IF services[NAME(h)] \notin {NoHandler, h}
                    THEN services[NAME(h)] ELSE displaced
    /\ UNCHANGED << ready, loopVars, signalled, peerVars, acceptQ, rxq, work,
                    chan, reqVars, taskVars, histVars >>

\* Router::serve / serve_with_shutdown is called; a Router holds at least the
\* service Server::add_service created it with.
Serve ==
    /\ loop = "Config"
    /\ \E n \in Names : services[n] # NoHandler
    /\ loop' = "Binding"
    /\ UNCHANGED << cfgVars, cur, curReq, signalled, peerVars, acceptQ, rxq,
                    work, chan, reqVars, taskVars, histVars >>

\* Endpoint::bind(addr).await.map_err(Error::from_source)?
Bind ==
    /\ loop = "Binding"
    /\ \E ok \in BOOLEAN : loop' = IF ok THEN "Accepting" ELSE "Failed"
    /\ UNCHANGED << cfgVars, cur, curReq, signalled, peerVars, acceptQ, rxq,
                    work, chan, reqVars, taskVars, histVars >>

\* --------------------------------------------------------------- select
\* The serve future ends (return or panic) and drops the endpoint and the
\* connection it holds: what waited there is discarded.
Waiting(c) == c = cur \/ \E i \in 1 .. Len(acceptQ) : acceptQ[i] = c

DropEndpoint ==
    /\ acceptQ' = <<>>
    /\ rxq' = [c \in Conns |-> IF Waiting(c) THEN <<>> ELSE rxq[c]]

\* select_biased!: the accept1 branch is polled first, the signal second.
\* accept1 is Ready when a connection waits in the endpoint.
AcceptReady == acceptQ # <<>>

\* Mutant of Accept: the next accept does not wait for the hand-off of the
\* connection the loop holds.
AcceptEager ==
    /\ loop \in Serving
    /\ AcceptReady
    /\ cur' = Head(acceptQ)
    /\ acceptQ' = Tail(acceptQ)
    /\ accepted' = Append(accepted, Head(acceptQ))
    /\ chan' = [chan EXCEPT ![Head(acceptQ)] = "open"]
    /\ loop' = "Classifying"
    /\ UNCHANGED << cfgVars, curReq, signalled, peerVars, rxq, work, reqVars,
                    taskVars, invoked, sentAtStop >>

\* accept1 resolved Ok((tx, rx, from)).
Accept ==
    /\ loop = "Accepting"
    /\ AcceptReady
    /\ cur' = Head(acceptQ)
    /\ acceptQ' = Tail(acceptQ)
    /\ accepted' = Append(accepted, Head(acceptQ))
    /\ chan' = [chan EXCEPT ![Head(acceptQ)] = "open"]
    /\ loop' = "Classifying"
    /\ UNCHANGED << cfgVars, curReq, signalled, peerVars, rxq, work, reqVars,
                    taskVars, invoked, sentAtStop >>

\* Mutant of AcceptFail: the accept error is swallowed and serving ends
\* with Ok(()).
AcceptFailSwallowed ==
    /\ loop = "Accepting"
    /\ loop' = "Stopped"
    /\ DropEndpoint
    /\ UNCHANGED << cfgVars, cur, curReq, signalled, peerVars, work, chan,
                    reqVars, taskVars, histVars >>

\* accept1 resolved Err (the transport decides when):
\* ret.map_err(Error::from_source)? returns Err.
AcceptFail ==
    /\ loop = "Accepting"
    /\ loop' = "Failed"
    /\ DropEndpoint
    /\ UNCHANGED << cfgVars, cur, curReq, signalled, peerVars, work, chan,
                    reqVars, taskVars, histVars >>

\* Mutant of Shutdown: the return aborts the response tasks still running.
ShutdownAborting ==
    /\ loop = "Accepting"
    /\ ~AcceptReady
    /\ signalled
    /\ loop' = "Stopped"
    /\ sentAtStop' = [c \in Conns |-> Len(sent[c])]
    /\ task' = [c \in Conns |-> IF task[c] \in {"next", "send"} THEN "aborted"
                                  ELSE task[c]]
    /\ UNCHANGED << cfgVars, cur, curReq, signalled, peerVars, acceptQ, rxq,
                    work, chan, reqVars, yielded, item, sent, accepted, invoked >>

\* Mutant of Shutdown: the signal is raced against every await of the loop,
\* not only the accept.
ShutdownAnywhere ==
    /\ loop \in Serving
    /\ loop = "Accepting" => ~AcceptReady
    /\ signalled
    /\ loop' = "Stopped"
    /\ sentAtStop' = [c \in Conns |-> Len(sent[c])]
    /\ UNCHANGED << cfgVars, cur, curReq, signalled, peerVars, acceptQ, rxq,
                    work, chan, reqVars, taskVars, accepted, invoked >>

\* accept1 is pending and the signal has resolved: return Ok(()).
Shutdown ==
    /\ loop = "Accepting"
    /\ ~AcceptReady
    /\ signalled
    /\ loop' = "Stopped"
    /\ sentAtStop' = [c \in Conns |-> Len(sent[c])]
    /\ UNCHANGED << cfgVars, cur, curReq, signalled, peerVars, acceptQ, rxq,
                    work, chan, reqVars, taskVars, accepted, invoked >>

\* ------------------------------------------------------------- classify
\* Mutant of RecvFail: the receive error is propagated with `?`.
RecvFailFatal ==
    /\ loop = "Classifying"
    /\ rxq[cur] = <<>>
    /\ loop' = "Failed"
    /\ cur' = NoConn
    /\ chan' = [chan EXCEPT ![cur] = "closed"]
    /\ UNCHANGED << cfgVars, curReq, signalled, peerVars, acceptQ, rxq, work,
                    reqVars, taskVars, histVars >>

\* rx.recv() resolved Err (the peer closed or the transport failed before a
\* first message): continue.
RecvFail ==
    /\ loop = "Classifying"
    /\ rxq[cur] = <<>>
    /\ loop' = "Accepting"
    /\ cur' = NoConn
    /\ chan' = [chan EXCEPT ![cur] = "closed"]
    /\ UNCHANGED << cfgVars, curReq, signalled, peerVars, acceptQ, rxq, work,
                    reqVars, taskVars, histVars >>

\* The serve future panics: expect("invalid type") or an unwrap of None.
LoopPanic ==
    /\ loop' = "Panicked"
    /\ cur' = NoConn
    /\ curReq' = NoMsg
    /\ chan' = [chan EXCEPT ![cur] = "closed"]
    /\ DropEndpoint
    /\ UNCHANGED requests

\* Mutant of Classify: the first message stays in the channel, so that a
\* request stream starts with the marker.
ClassifyKeepsMarker ==
    /\ loop = "Classifying"
    /\ rxq[cur] # <<>>
    /\ LET m    == Head(rxq[cur])
           name == SvcName(m.path)
       IN  IF ~IsRequest(m) THEN LoopPanic
           ELSE IF ~name[1] THEN LoopPanic
           ELSE IF Lookup(name[2]) = NoHandler THEN LoopPanic
           ELSE /\ requests' = [requests EXCEPT ![cur] =
                        IF IsSingle(m.body) THEN OnceStream(m.body)
                        ELSE RecvStream]
                /\ curReq' = m
                /\ loop' = "WaitReady"
                /\ UNCHANGED << cur, chan, acceptQ, rxq >>
    /\ UNCHANGED << cfgVars, signalled, peerVars, work, delivered, taskVars,
                    histVars >>

\* rx.recv() resolved Ok(msg): downcast, build the request sequence, look the
\* service up; the loop then awaits poll_ready.
Classify ==
    /\ loop = "Classifying"
    /\ rxq[cur] # <<>>
    /\ LET m    == Head(rxq[cur])
           name == SvcName(m.path)
       IN  IF ~IsRequest(m) THEN LoopPanic
           ELSE IF ~name[1] THEN LoopPanic
           ELSE IF Lookup(name[2]) = NoHandler THEN LoopPanic
           ELSE /\ requests' = [requests EXCEPT ![cur] =
                        IF IsSingle(m.body) THEN OnceStream(m.body)
                        ELSE RecvStream]
                /\ rxq' = [rxq EXCEPT ![cur] = Tail(@)]
                /\ curReq' = m
                /\ loop' = "WaitReady"
                /\ UNCHANGED << cur, chan, acceptQ >>
    /\ UNCHANGED << cfgVars, signalled, peerVars, work, delivered, taskVars,
                    histVars >>

\* ------------------------------------------------------------- dispatch
\* The handler the classified call resolves to.
CurHandler == Lookup(SvcName(curReq.path)[2])

\* Mutant of Dispatch: the response is streamed by the loop itself, which
\* stays with the call instead of spawning a task.
DispatchInline ==
    /\ loop = "WaitReady"
    /\ ready[CurHandler]
    /\ invoked' = Append(invoked, [handler |-> CurHandler, from |-> PeerAddr(cur),
                                   path |-> curReq.path,
                                   reqs |-> requests[cur].kind, conn |-> cur])
    /\ task' = [task EXCEPT ![cur] = "next"]
    /\ rxq' = [rxq EXCEPT ![cur] = IF requests[cur].kind = "once" THEN <<>> ELSE @]
    /\ loop' = "Responding"
    /\ UNCHANGED << cfgVars, cur, curReq, signalled, peerVars, acceptQ, work,
                    chan, reqVars, yielded, item, sent, accepted, sentAtStop >>

\* Mutant of Dispatch: the handler is given the service part of the path
\* only, not the full identifier.
DispatchBarePath ==
    /\ loop = "WaitReady"
    /\ ready[CurHandler]
    /\ invoked' = Append(invoked, [handler |-> CurHandler, from |-> PeerAddr(cur),
                                   path |-> <<"/">> \o SvcName(curReq.path)[2],
                                   reqs |-> requests[cur].kind, conn |-> cur])
    /\ task' = [task EXCEPT ![cur] = "next"]
    /\ rxq' = [rxq EXCEPT ![cur] = IF requests[cur].kind = "once" THEN <<>> ELSE @]
    /\ loop' = "Accepting"
    /\ cur' = NoConn
    /\ curReq' = NoMsg
    /\ UNCHANGED << cfgVars, signalled, peerVars, acceptQ, work, chan, reqVars,
                    yielded, item, sent, accepted, sentAtStop >>

\* Mutant of Dispatch: the handler is called without the readiness check.
DispatchUnchecked ==
    /\ loop = "WaitReady"
    /\ invoked' = Append(invoked, [handler |-> CurHandler, from |-> PeerAddr(cur),
                                   path |-> curReq.path,
                                   reqs |-> requests[cur].kind, conn |-> cur])
    /\ task' = [task EXCEPT ![cur] = "next"]
    /\ rxq' = [rxq EXCEPT ![cur] = IF requests[cur].kind = "once" THEN <<>> ELSE @]
    /\ loop' = "Accepting"
    /\ cur' = NoConn
    /\ curReq' = NoMsg
    /\ UNCHANGED << cfgVars, signalled, peerVars, acceptQ, work, chan, reqVars,
                    yielded, item, sent, accepted, sentAtStop >>

\* poll_ready returned Ready: svc.call((from, path, requests)) and
\* madsim::task::spawn of the response task; the iteration ends, which drops
\* rx unless the request sequence owns it.
Dispatch ==
    /\ loop = "WaitReady"
    /\ ready[CurHandler]
    /\ invoked' = Append(invoked, [handler |-> CurHandler, from |-> PeerAddr(cur),
                                   path |-> curReq.path,
                                   reqs |-> requests[cur].kind, conn |-> cur])
    /\ task' = [task EXCEPT ![cur] = "next"]
    /\ rxq' = [rxq EXCEPT ![cur] = IF requests[cur].kind = "once" THEN <<>> ELSE @]
    /\ loop' = "Accepting"
    /\ cur' = NoConn
    /\ curReq' = NoMsg
    /\ UNCHANGED << cfgVars, signalled, peerVars, acceptQ, work, chan, reqVars,
                    yielded, item, sent, accepted, sentAtStop >>

\* -------------------------------------------------------- response task
\* A panic inside a task started by madsim::task::spawn ends that task.
TaskPanic(c) == [task EXCEPT ![c] = "panicked"]

\* The task ends: it drops tx and the response sequence, and with it the
\* request sequence and the rx it may own.
TaskDrop(c) ==
    /\ chan' = [chan EXCEPT ![c] = "closed"]
    /\ requests' = [requests EXCEPT ![c] = DroppedStream]
    /\ rxq' = [rxq EXCEPT ![c] = <<>>]

\* rsp_future.await, then stream.next().await resolved Some(rsp).
TaskNext(c) ==
    /\ task[c] = "next"
    /\ work < MaxWork
    /\ \E it \in Items :
          /\ yielded' = [yielded EXCEPT ![c] = Append(@, it)]
          /\ item' = [item EXCEPT ![c] = it]
    /\ task' = [task EXCEPT ![c] = "send"]
    /\ work' = work + 1
    /\ UNCHANGED << cfgVars, loopVars, signalled, peerVars, acceptQ, rxq, chan,
                    reqVars, sent, histVars >>

\* rsp_future.await, then stream.next().await resolved None: the task ends.
TaskEnd(c) ==
    /\ task[c] = "next"
    /\ task' = [task EXCEPT ![c] = "done"]
    /\ TaskDrop(c)
    /\ UNCHANGED << cfgVars, loopVars, signalled, peerVars, acceptQ, work,
                    delivered, yielded, item, sent, histVars >>

\* Mutant of TaskSend: the item is put in front of those already sent.
TaskSendReordered(c) ==
    /\ task[c] = "send"
    /\ \E ok \in BOOLEAN :
          IF ok
          THEN /\ sent' = [sent EXCEPT ![c] = <<item[c]>> \o @]
               /\ task' = [task EXCEPT ![c] = "next"]
               /\ UNCHANGED << chan, requests, rxq >>
          ELSE /\ task' = TaskPanic(c)
               /\ TaskDrop(c)
               /\ UNCHANGED sent
    /\ item' = [item EXCEPT ![c] = <<>>]
    /\ UNCHANGED << cfgVars, loopVars, signalled, peerVars, acceptQ, work,
                    delivered, yielded, histVars >>

\* Mutant of TaskSend: the item is sent twice.
TaskSendTwice(c) ==
    /\ task[c] = "send"
    /\ \E ok \in BOOLEAN :
          IF ok
          THEN /\ sent' = [sent EXCEPT ![c] = Append(Append(@, item[c]), item[c])]
               /\ task' = [task EXCEPT ![c] = "next"]
               /\ UNCHANGED << chan, requests, rxq >>
          ELSE /\ task' = TaskPanic(c)
               /\ TaskDrop(c)
               /\ UNCHANGED sent
    /\ item' = [item EXCEPT ![c] = <<>>]
    /\ UNCHANGED << cfgVars, loopVars, signalled, peerVars, acceptQ, work,
                    delivered, yielded, histVars >>

\* Mutant of TaskSend: the send error is unwrapped by the serve future,
\* whose panic takes every response task down with it.
TaskSendFatal(c) ==
    /\ task[c] = "send"
    /\ \E ok \in BOOLEAN :
          IF ok
          THEN /\ sent' = [sent EXCEPT ![c] = Append(@, item[c])]
               /\ task' = [task EXCEPT ![c] = "next"]
               /\ UNCHANGED << chan, requests, rxq, loop >>
          ELSE /\ task' = [d \in Conns |-> IF task[d] \in {"next", "send"}
                                           THEN "panicked" ELSE task[d]]
               /\ loop' = "Panicked"
               /\ TaskDrop(c)
               /\ UNCHANGED sent
    /\ item' = [item EXCEPT ![c] = <<>>]
    /\ UNCHANGED << cfgVars, cur, curReq, signalled, peerVars, acceptQ, work,
                    delivered, yielded, histVars >>

\* Mutant of TaskSend: an Err item is sent and then ends the task.
TaskSendStopsOnErr(c) ==
    /\ task[c] = "send"
    /\ \E ok \in BOOLEAN :
          IF ok
          THEN /\ sent' = [sent EXCEPT ![c] = Append(@, item[c])]
               /\ IF item[c][1] = "Err"
                  THEN /\ task' = [task EXCEPT ![c] = "done"]
                       /\ TaskDrop(c)
                  ELSE /\ task' = [task EXCEPT ![c] = "next"]
                       /\ UNCHANGED << chan, requests, rxq >>
          ELSE /\ task' = TaskPanic(c)
               /\ TaskDrop(c)
               /\ UNCHANGED sent
    /\ item' = [item EXCEPT ![c] = <<>>]
    /\ UNCHANGED << cfgVars, loopVars, signalled, peerVars, acceptQ, work,
                    delivered, yielded, histVars >>

\* tx.send(Box::new(rsp)).await.unwrap(): the send delivers the item, or
\* fails because the peer is gone and the unwrap panics.
TaskSend(c) ==
    /\ task[c] = "send"
    /\ \E ok \in BOOLEAN :
          IF ok
          THEN /\ sent' = [sent EXCEPT ![c] = Append(@, item[c])]
               /\ task' = [task EXCEPT ![c] = "next"]
               /\ UNCHANGED << chan, requests, rxq >>
          ELSE /\ task' = TaskPanic(c)
               /\ TaskDrop(c)
               /\ UNCHANGED sent
    /\ item' = [item EXCEPT ![c] = <<>>]
    /\ UNCHANGED << cfgVars, loopVars, signalled, peerVars, acceptQ, work,
                    delivered, yielded, histVars >>

\* ------------------------------------------------------ request sequence
\* Mutant of HandlerPull: after the first message the single-value sequence
\* goes on to receive from the channel.
HandlerPullAgain(c) ==
    /\ task[c] = "next"
    /\ \/ /\ requests[c].kind = "once"
          /\ delivered' = [delivered EXCEPT ![c] = Append(@, requests[c].msg)]
          /\ requests' = [requests EXCEPT ![c] = RecvStream]
          /\ UNCHANGED rxq
       \/ /\ requests[c].kind = "stream"
          /\ rxq[c] # <<>>
          /\ delivered' = [delivered EXCEPT ![c] = Append(@, Head(rxq[c]).body)]
          /\ rxq' = [rxq EXCEPT ![c] = Tail(@)]
          /\ UNCHANGED requests
       \/ /\ requests[c].kind = "stream"
          /\ rxq[c] = <<>>
          /\ requests' = [requests EXCEPT ![c] = EndedStream]
          /\ UNCHANGED << rxq, delivered >>
    /\ UNCHANGED << cfgVars, loopVars, signalled, peerVars, acceptQ, work, chan,
                    taskVars, histVars >>

\* The handler polls the request sequence it was called with (it does so
\* from inside its future or its response sequence, which the task polls).
\* stream::once yields the first message and ends; the try_stream yields
\* what rx.recv() returns until it returns Err.
HandlerPull(c) ==
    /\ task[c] = "next"
    /\ \/ /\ requests[c].kind = "once"
          /\ delivered' = [delivered EXCEPT ![c] = Append(@, requests[c].msg)]
          /\ requests' = [requests EXCEPT ![c] = SpentStream]
          /\ UNCHANGED rxq
       \/ /\ requests[c].kind = "stream"
          /\ rxq[c] # <<>>
          /\ delivered' = [delivered EXCEPT ![c] = Append(@, Head(rxq[c]).body)]
          /\ rxq' = [rxq EXCEPT ![c] = Tail(@)]
          /\ UNCHANGED requests
       \/ /\ requests[c].kind = "stream"
          /\ rxq[c] = <<>>
          /\ requests' = [requests EXCEPT ![c] = EndedStream]
          /\ UNCHANGED << rxq, delivered >>
    /\ UNCHANGED << cfgVars, loopVars, signalled, peerVars, acceptQ, work, chan,
                    taskVars, histVars >>

\* ------------------------------------------------------------ environment
\* The server still owns the Receiver of connection c: the loop holds it, or
\* the open request stream of a running task does (the stream drops it in the
\* poll in which it ends).
RxAlive(c) ==
    \/ Waiting(c)
    \/ requests[c].kind = "stream" /\ task[c] \in {"next", "send"}

\* A peer connects to the bound endpoint.
Connect ==
    /\ loop \in Serving
    /\ nconn < MaxConns
    /\ work < MaxWork
    /\ nconn' = nconn + 1
    /\ acceptQ' = Append(acceptQ, nconn + 1)
    /\ work' = work + 1
    /\ UNCHANGED << cfgVars, loopVars, signalled, begun, rxq, chan, reqVars,
                    taskVars, histVars >>

\* A peer sends a message on its connection.
PeerSend(c) ==
    /\ c <= nconn
    /\ RxAlive(c)
    /\ work < MaxWork
    /\ \E m \in (IF begun[c] THEN LaterMsgs ELSE FirstMsgs) :
          rxq' = [rxq EXCEPT ![c] = Append(@, m)]
    /\ begun' = [begun EXCEPT ![c] = TRUE]
    /\ work' = work + 1
    /\ UNCHANGED << cfgVars, loopVars, signalled, nconn, acceptQ, chan,
                    reqVars, taskVars, histVars >>

\* The shutdown future passed to serve_with_shutdown resolves.
ResolveSignal ==
    /\ loop \in Serving
    /\ ~signalled
    /\ signalled' = TRUE
    /\ UNCHANGED << cfgVars, loopVars, peerVars, acceptQ, rxq, work, chan,
                    reqVars, taskVars, histVars >>

\* The readiness gate of the handler the loop is polling closes or opens
\* (poll_ready is the loop's only view of it).
SetReady(h) ==
    /\ loop = "WaitReady"
    /\ h = CurHandler
    /\ ready' = [ready EXCEPT ![h] = ~@]
    /\ UNCHANGED << services, displaced, loopVars, signalled, peerVars, acceptQ, rxq, work,
                    chan, reqVars, taskVars, histVars >>

\* ---------------------------------------------------------- specification
LoopStep ==
    \/ Bind
    \/ Accept
    \/ AcceptFail
    \/ Shutdown
    \/ RecvFail
    \/ Classify
    \/ Dispatch

TaskStep(c) ==
    \/ TaskNext(c)
    \/ TaskEnd(c)
    \/ TaskSend(c)

Next ==
    \/ \E h \in Handlers : AddService(h)
    \/ Serve
    \/ LoopStep
    \/ \E c \in Conns : TaskStep(c)
    \/ \E c \in Conns : HandlerPull(c)
    \/ Connect
    \/ \E c \in Conns : PeerSend(c)
    \/ ResolveSignal
    \/ \E h \in Handlers : SetReady(h)

Spec == Init /\ [][Next]_vars

\* The executor polls a task whose awaited future is ready: an accept with a
\* connection waiting, a resolved signal, a first message that has arrived, a
\* handler that is ready (strongly: its wake-up is not missed however its
\* gate flickers), a send in progress.  Failures, peers and handlers are under
\* no such obligation.
Fairness ==
    /\ WF_vars(Bind)
    /\ WF_vars(Accept)
    /\ WF_vars(Shutdown)
    /\ WF_vars(Classify)
    /\ SF_vars(Dispatch)
    /\ \A c \in Conns : WF_vars(TaskSend(c))

FairSpec == Spec /\ Fairness

\* ------------------------------------------------------------ properties
Range(s) == {s[i] : i \in 1 .. Len(s)}

IsPrefix(s, t) == Len(s) <= Len(t) /\ \A i \in 1 .. Len(s) : s[i] = t[i]

\* The calls made for connection c.
CallsOf(c) == {i \in 1 .. Len(invoked) : invoked[i].conn = c}

\* C1: once the shutdown signal has resolved no new connection is accepted:
\* a connection that arrives after the signal resolved (connections are
\* numbered in arrival order) is never accepted and never reaches a handler.
C1_NoAcceptAfterSignal ==
    \A k \in 0 .. MaxConns :
       []((signalled /\ nconn = k) =>
             [](\A c \in Conns : c > k => c \notin Range(accepted) /\ CallsOf(c) = {}))

\* C2: once the shutdown signal resolves, serve_with_shutdown eventually
\* returns Ok(()), whatever the loop is waiting for at that moment (a return
\* by transport error or an abort also ends the wait).
C2_EventuallyStops ==
    (signalled /\ loop \in Serving) ~> (loop \in {"Stopped", "Failed", "Panicked"})

\* C3: the return of serve_with_shutdown cancels no response task: the step
\* that returns Ok(()) leaves every task as it was, and after it a task that
\* holds an item can still send it and ends only with every yielded item sent.
C3_ShutdownKeepsTasks ==
    /\ [][(loop # "Stopped" /\ loop' = "Stopped") => UNCHANGED taskVars]_vars
    /\ [](loop = "Stopped" =>
            \A c \in Conns :
               /\ task[c] \in {"none", "next", "send", "done", "panicked"}
               /\ task[c] = "send" => ENABLED TaskSend(c)
               /\ task[c] = "done" => sent[c] = yielded[c])

\* Witness of C3: a task that sent an item after the return and then ended.
C3_Witness ==
    /\ loop = "Stopped"
    /\ \E c \in Conns : task[c] = "done" /\ Len(sent[c]) > sentAtStop[c]

\* The loop holds a first message whose service name has no registry entry.
UnregisteredCall ==
    /\ loop = "Classifying"
    /\ rxq[cur] # <<>>
    /\ IsRequest(Head(rxq[cur]))
    /\ SvcName(Head(rxq[cur]).path)[1]
    /\ Lookup(SvcName(Head(rxq[cur]).path)[2]) = NoHandler

\* C4: a call to an unregistered service never aborts serving: the loop goes
\* on (to Accepting) and the connection is kept to answer Err(NotFound).
C4_UnregisteredIsAnswered ==
    [][(UnregisteredCall /\ loop' # loop) =>
          (loop' = "Accepting" /\ chan'[cur] = "open")]_vars

\* C5: for every call the items sent are the items the response sequence
\* yielded, in the same order, none repeated or left out: what was sent is a
\* prefix of what was yielded, at most the item being sent is outstanding,
\* and a task that ended normally has sent everything.
C5_OrderPreserved ==
    \A c \in Conns :
       /\ IsPrefix(sent[c], yielded[c])
       /\ task[c] = "send" => yielded[c] = Append(sent[c], item[c])
       /\ task[c] \in {"next", "done"} => sent[c] = yielded[c]

\* Witness of C5: a call that ended with two different items sent.
C5_Witness ==
    \E c \in Conns :
       /\ task[c] = "done"
       /\ Len(sent[c]) = 2
       /\ sent[c][1] # sent[c][2]

\* The call of connection c was a valid unary call: dispatched with the
\* single-value request sequence.
UnaryCall(c) == \E i \in CallsOf(c) : invoked[i].reqs = "once"

\* C6 as claimed: every valid unary call whose task ended got exactly one
\* response item, and the channel is closed.
C6_ExactlyOneResponse ==
    \A c \in Conns :
       (UnaryCall(c) /\ task[c] = "done") =>
          (Len(sent[c]) = 1 /\ chan[c] = "closed")

\* C6 as amended: a valid unary call whose task ended got exactly as many
\* response items as its handler's response sequence yielded (one when it
\* yielded one), and the channel is closed.
C6_OnePerYielded ==
    \A c \in Conns :
       (UnaryCall(c) /\ task[c] = "done") =>
          (Len(sent[c]) = Len(yielded[c]) /\ chan[c] = "closed")

\* Witness of C6: a unary call that ended with its single response sent.
C6_Witness ==
    \E c \in Conns :
       /\ UnaryCall(c)
       /\ task[c] = "done"
       /\ Len(yielded[c]) = 1
       /\ Len(sent[c]) = 1

\* The handler the first message m would be dispatched to.
HandlerOf(m) == Lookup(SvcName(m.path)[2])

\* C7: while the handler of the call being dispatched is not ready, a waiting
\* connection addressed to another, ready handler can be accepted.
C7_IndependentServices ==
    ( /\ loop = "WaitReady"
      /\ ~ready[CurHandler]
      /\ acceptQ # <<>>
      /\ rxq[Head(acceptQ)] # <<>>
      /\ HandlerOf(Head(rxq[Head(acceptQ)])) \notin {NoHandler, CurHandler}
      /\ ready[HandlerOf(Head(rxq[Head(acceptQ)]))] )
    => ENABLED Accept

\* C8: the loop never waits for a call: the step that invokes the handler and
\* spawns the task leaves the loop accepting, whatever the tasks do a waiting
\* connection can be accepted, and the loop holds no connection that already
\* has a task.
C8_LoopNeverWaitsForCall ==
    /\ [][(\E c \in Conns : task[c] = "none" /\ task'[c] # "none")
             => loop' = "Accepting"]_vars
    /\ []((loop = "Accepting" /\ AcceptReady) => ENABLED Accept)
    /\ [](cur # NoConn => task[cur] = "none")

\* Witness of C8: two calls in flight while the loop accepts.
C8_Witness ==
    /\ loop = "Accepting"
    /\ \E c, d \in Conns : c # d /\ task[c] = "next" /\ task[d] = "send"

\* C9: a failed send ends only the task of its call: the step leaves the
\* loop and every other task, with what it sent, as they were, and the other
\* tasks can still send.
C9_SendFailureIsLocal ==
    /\ [][\A c \in Conns :
             (task[c] = "send" /\ task'[c] = "panicked") =>
                /\ UNCHANGED loopVars
                /\ \A d \in Conns \ {c} :
                      /\ task'[d] = task[d]
                      /\ sent'[d] = sent[d]
                      /\ chan'[d] = chan[d]]_vars
    /\ [](\A d \in Conns : task[d] = "send" => ENABLED TaskSend(d))

\* Witness of C9: one task ended by a failed send, another sending, the loop
\* accepting.
C9_Witness ==
    /\ loop = "Accepting"
    /\ \E c, d \in Conns : task[c] = "panicked" /\ task[d] = "send"

\* C10: a failed first receive is not fatal: the step that ends the wait for
\* a first message that never came invokes no handler, spawns no task, and
\* puts the loop back in Accepting.
C10_RecvFailureContinues ==
    [][(loop = "Classifying" /\ rxq[cur] = <<>> /\ loop' # "Classifying") =>
          /\ loop' = "Accepting"
          /\ invoked' = invoked
          /\ task' = task]_vars

\* Witness of C10: a connection dropped without a task, and a later one
\* accepted.
C10_Witness ==
    /\ loop \in Serving
    /\ Len(accepted) = 2
    /\ chan[accepted[1]] = "closed"
    /\ task[accepted[1]] = "none"
    /\ CallsOf(accepted[1]) = {}

\* C11: a transport failure is fatal to serving.  A failed bind returns Err
\* with no connection accepted; a failed accept (the only way out of the
\* select besides a connection and the resolved signal) returns Err; and once
\* Err is returned no connection is accepted and no handler invoked any more.
C11_TransportFailureIsFatal ==
    /\ [][(loop = "Binding" /\ loop' # "Accepting") =>
             (loop' = "Failed" /\ accepted' = <<>> /\ invoked' = <<>>)]_vars
    /\ [][(loop = "Accepting" /\ loop' \notin {"Accepting", "Classifying"}
             /\ ~signalled) => loop' = "Failed"]_vars
    /\ [][loop = "Failed" =>
             (loop' = "Failed" /\ accepted' = accepted /\ invoked' = invoked)]_vars
    /\ [](loop = "Failed" =>
             (~ENABLED Accept /\ ~ENABLED Classify /\ ~ENABLED Dispatch))

\* Witness of C11: accept failed after one call was dispatched, and a second
\* connection that had arrived was never accepted.
C11_Witness ==
    /\ loop = "Failed"
    /\ Len(accepted) = 1
    /\ Len(invoked) = 1
    /\ nconn = 2

\* C12: the registry is looked up by the service-name segment only: calls to
\* /a/x and /a/y both go to the handler registered under a (and /b?x/y to
\* the one under b), and the handler is given the path of the first message in
\* full and the address of the peer behind the connection.
C12_LookupByServiceName ==
    /\ [](\A i \in 1 .. Len(invoked) :
             /\ invoked[i].handler # NoHandler
             /\ invoked[i].path \in Paths
             /\ invoked[i].path \in {<<"/", "a", "/", "x">>, <<"/", "a", "/", "y">>}
                   => invoked[i].handler = services[<<"a">>]
             /\ invoked[i].path = <<"/", "b", "?", "x", "/", "y">>
                   => invoked[i].handler = services[<<"b">>]
             /\ invoked[i].from = PeerAddr(invoked[i].conn))
    /\ [][(loop = "Classifying" /\ loop' = "WaitReady") =>
             curReq' = Head(rxq[cur])]_vars
    /\ [][Len(invoked') > Len(invoked) =>
             /\ invoked'[Len(invoked')].path = curReq.path
             /\ invoked'[Len(invoked')].conn = cur]_vars

\* Witness of C12: two calls to different methods of the same service, both
\* dispatched to the one handler registered under its name.
C12_Witness ==
    /\ Len(invoked) = 2
    /\ invoked[1].path # invoked[2].path
    /\ invoked[1].handler = invoked[2].handler
    /\ invoked[1].from # invoked[2].from

\* C13: an Err(status) item is an ordinary item.  A send that succeeds
\* appends the item, Ok or Err, to what the peer got and takes the task back
\* to the response sequence, which may yield again; the task ends normally
\* only where the sequence ends, with every yielded item sent.
C13_ErrItemDoesNotAbort ==
    /\ [][\A c \in Conns :
             (task[c] = "send" /\ task'[c] # "send") =>
                \/ /\ task'[c] = "next"
                   /\ sent'[c] = Append(sent[c], item[c])
                \/ /\ task'[c] = "panicked"
                   /\ sent'[c] = sent[c]]_vars
    /\ [][\A c \in Conns :
             (task[c] # "done" /\ task'[c] = "done") =>
                (task[c] = "next" /\ sent[c] = yielded[c])]_vars
    /\ [](\A c \in Conns :
             (task[c] = "next" /\ work < MaxWork) => ENABLED TaskNext(c))

\* Witness of C13: a call that ended after an Err item and then an Ok item
\* were both sent.
C13_Witness ==
    \E c \in Conns :
       /\ task[c] = "done"
       /\ Len(sent[c]) = 2
       /\ sent[c][1][1] = "Err"
       /\ sent[c][2][1] = "Ok"

\* C14: shutdown wins ties.  When the loop is at the select with a connection
\* ready to be accepted and the signal resolved, the select is decided for
\* the signal: the loop returns Ok(()) and the connection is not accepted (a
\* failing accept aside).
C14_ShutdownWinsTies ==
    [][(loop = "Accepting" /\ AcceptReady /\ signalled
          /\ loop' \notin {"Accepting", "Failed"}) =>
             (loop' = "Stopped" /\ accepted' = accepted)]_vars

\* The call of connection c was dispatched with the receiving request
\* sequence.
StreamingCall(c) == \E i \in CallsOf(c) : invoked[i].reqs = "stream"

\* C15: for a streaming call the request sequence does not contain the
\* marker: it is built with the marker taken off the channel and nothing
\* yielded; each thing it yields is the oldest message waiting on the
\* channel, which it takes; it ends at a receive that finds nothing, yielding
\* nothing then or afterwards.
C15_StreamIsLaterMessages ==
    /\ [](\A c \in Conns :
             StreamingCall(c) => \A i \in 1 .. Len(delivered[c]) : delivered[c][i] # Unit)
    /\ [][(loop = "Classifying" /\ loop' = "WaitReady"
             /\ Head(rxq[cur]).body = Unit) =>
                /\ requests'[cur] = RecvStream
                /\ delivered'[cur] = <<>>
                /\ rxq'[cur] = Tail(rxq[cur])]_vars
    /\ [][\A c \in Conns :
             (requests[c].kind = "stream" /\ delivered'[c] # delivered[c]) =>
                /\ rxq[c] # <<>>
                /\ delivered'[c] = Append(delivered[c], Head(rxq[c]).body)
                /\ rxq'[c] = Tail(rxq[c])
                /\ requests'[c].kind = "stream"]_vars
    /\ [][\A c \in Conns :
             (requests[c].kind = "stream" /\ requests'[c].kind = "ended") =>
                (rxq[c] = <<>> /\ delivered'[c] = delivered[c])]_vars
    /\ [][\A c \in Conns :
             (StreamingCall(c) /\ requests[c].kind \in {"ended", "dropped"}) =>
                delivered'[c] = delivered[c]]_vars

\* Witness of C15: a streaming call whose request sequence yielded the two
\* messages sent after the marker, in order, and then ended.
C15_Witness ==
    \E c \in Conns :
       /\ StreamingCall(c)
       /\ requests[c].kind = "ended"
       /\ delivered[c] = <<"A", "B">>

\* Witness of C15, empty case: a streaming call whose request sequence ended
\* with nothing yielded.
C15_WitnessEmpty ==
    \E c \in Conns :
       /\ StreamingCall(c)
       /\ requests[c].kind = "ended"
       /\ delivered[c] = <<>>

\* C16: for a unary call the request sequence is built over the first
\* payload with nothing yielded; the one thing it ever yields is that payload,
\* after which it is spent; and from the hand-off on the server holds no
\* receiver for the connection, so nothing the peer sent or sends is pulled.
C16_UnaryYieldsFirstOnly ==
    /\ [][(loop = "Classifying" /\ loop' = "WaitReady"
             /\ Head(rxq[cur]).body # Unit) =>
                /\ requests'[cur] = OnceStream(Head(rxq[cur]).body)
                /\ delivered'[cur] = <<>>]_vars
    /\ [][\A c \in Conns :
             (requests[c].kind = "once" /\ delivered'[c] # delivered[c]) =>
                /\ delivered'[c] = <<requests[c].msg>>
                /\ requests'[c] = SpentStream
                /\ rxq'[c] = rxq[c]]_vars
    /\ [][\A c \in Conns :
             (UnaryCall(c) /\ requests[c].kind # "once") =>
                (delivered'[c] = delivered[c] /\ requests'[c].kind # "stream")]_vars
    /\ [](\A c \in Conns :
             UnaryCall(c) => (Len(delivered[c]) <= 1 /\ ~RxAlive(c) /\ rxq[c] = <<>>))

\* Witness of C16: a unary call whose request sequence yielded the first
\* payload and is spent, on a connection where the peer had sent a second
\* message (one connection, two messages, no item: three units of work).
C16_Witness ==
    \E c \in Conns :
       /\ UnaryCall(c)
       /\ requests[c] = SpentStream
       /\ delivered[c] = <<"A">>
       /\ nconn = 1
       /\ yielded[c] = <<>>
       /\ work = 3

\* The loop is done with connection c: its handler was invoked and its task
\* spawned, or it was dropped without either.
HandedOff(c) ==
    \/ CallsOf(c) # {} /\ task[c] # "none"
    \/ CallsOf(c) = {} /\ task[c] = "none" /\ chan[c] = "closed"

\* C17: connections are handled one at a time and each at most once.  An
\* accept happens only when the loop holds no connection and every connection
\* accepted before is handed off, and it yields a connection not accepted
\* before; a handler is invoked only for the connection the loop holds, which
\* has no call and no task yet; so no connection has two calls, a task exists
\* exactly for the connections with a call, and calls are in accept order.
C17_OneAtATime ==
    /\ [][accepted' # accepted =>
             /\ loop = "Accepting"
             /\ cur = NoConn
             /\ \A c \in Range(accepted) : HandedOff(c)
             /\ cur' \notin Range(accepted)
             /\ accepted' = Append(accepted, cur')]_vars
    /\ [][invoked' # invoked =>
             /\ CallsOf(cur) = {}
             /\ task[cur] = "none"
             /\ task'[cur] # "none"
             /\ invoked' = Append(invoked, invoked'[Len(invoked')])
             /\ invoked'[Len(invoked')].conn = cur
             /\ cur = accepted[Len(accepted)]]_vars
    /\ [](\A c \in Conns :
             /\ Cardinality(CallsOf(c)) <= 1
             /\ task[c] # "none" <=> CallsOf(c) # {})
    /\ [](\A i, j \in 1 .. Len(invoked) :
             i < j => \E k, l \in 1 .. Len(accepted) :
                        /\ k < l
                        /\ accepted[k] = invoked[i].conn
                        /\ accepted[l] = invoked[j].conn)

\* Witness of C17: two connections accepted and both dispatched, in accept
\* order, each with a task of its own.
C17_Witness ==
    /\ Len(accepted) = 2
    /\ Len(invoked) = 2
    /\ invoked[1].conn = accepted[1]
    /\ invoked[2].conn = accepted[2]
    /\ \A c \in Conns : task[c] # "none"

\* C18: no call before readiness.  Every invocation is made from the
\* readiness wait, on the handler being waited for, in a step that finds its
\* poll_ready Ready; while that handler is not ready the loop stays in the
\* wait, keeping the connection and the call it classified, and invokes
\* nothing; once it is ready the call can be made.
C18_CallOnlyWhenReady ==
    /\ [][invoked' # invoked =>
             /\ loop = "WaitReady"
             /\ invoked'[Len(invoked')].handler = CurHandler
             /\ ready[CurHandler]]_vars
    /\ [][(loop = "WaitReady" /\ ~ready[CurHandler]) =>
             /\ loop' = "WaitReady"
             /\ cur' = cur
             /\ curReq' = curReq
             /\ requests'[cur] = requests[cur]
             /\ chan'[cur] = "open"
             /\ invoked' = invoked]_vars
    /\ [](loop = "WaitReady" => (ENABLED Dispatch <=> ready[CurHandler]))

\* Witness of C18: a handler that was invoked once is not ready for the next
\* call, which the loop is holding.
C18_Witness ==
    /\ loop = "WaitReady"
    /\ ~ready[CurHandler]
    /\ Len(invoked) = 1
    /\ invoked[1].handler = CurHandler
    /\ cur # NoConn

\* C19: names are unique in the registry and the last registration wins.
\* An add_service call changes the entry under the name of its handler, to
\* that handler, and no other entry; a handler displaced from its name is no
\* longer in the registry; and no call is dispatched to it: every call goes
\* to the handler the registry holds under the name of its path.
C19_LastWriteWins ==
    /\ [][services' # services =>
             \E h \in Handlers :
                /\ services'[NAME(h)] = h
                /\ \A n \in Names \ {NAME(h)} : services'[n] = services[n]]_vars
    /\ [](\A n \in Names : services[n] # NoHandler => NAME(services[n]) = n)
    /\ [](displaced # NoHandler =>
             /\ \A n \in Names : services[n] # displaced
             /\ services[NAME(displaced)] # NoHandler
             /\ \A i \in 1 .. Len(invoked) : invoked[i].handler # displaced)
    /\ [](\A i \in 1 .. Len(invoked) :
             invoked[i].handler = services[NAME(invoked[i].handler)])

\* Witness of C19: handler 3 was registered over handler 1 under their common
\* name, and a call to that name was dispatched to handler 3.
C19_Witness ==
    /\ displaced = 1
    /\ services[NAME(1)] = 3
    /\ \E i \in 1 .. Len(invoked) :
          invoked[i].handler = 3 /\ SvcName(invoked[i].path)[2] = NAME(1)

\* C20: the signal is acted on at the select only.  Ok(()) is returned from
\* Accepting with no connection held and never from the first receive or the
\* readiness wait; with the signal resolved a first message that has arrived
\* is still classified and a ready handler still invoked, the step out of the
\* readiness wait being the invocation and the spawn; so at the return every
\* accepted connection has been handed off.
C20_SignalOnlyAtSelect ==
    /\ [][(loop # "Stopped" /\ loop' = "Stopped") =>
             (loop = "Accepting" /\ cur = NoConn /\ signalled)]_vars
    /\ [](loop \in {"Classifying", "WaitReady"} => ~ENABLED Shutdown)
    /\ []((signalled /\ loop = "Classifying" /\ rxq[cur] # <<>>) =>
             ENABLED Classify)
    /\ []((signalled /\ loop = "WaitReady" /\ ready[CurHandler]) =>
             ENABLED Dispatch)
    /\ [][(signalled /\ loop = "WaitReady" /\ loop' # "WaitReady") =>
             /\ loop' = "Accepting"
             /\ \E i \in 1 .. Len(invoked') : invoked'[i].conn = cur
             /\ task'[cur] = "next"]_vars
    /\ [](loop = "Stopped" => \A c \in Range(accepted) : HandedOff(c))

\* Witness of C20: the signal has resolved while the loop, not returned, holds
\* a classified call for a ready handler, which it can still invoke.
C20_Witness ==
    /\ signalled
    /\ loop = "WaitReady"
    /\ ready[CurHandler]
    /\ ENABLED Dispatch
    /\ acceptQ = <<>>

====
